---- MODULE Spec2Model ----
(***************************************************************************)
(* A model of hafas-rest-api-client (src/index.js): createClient, the      *)
(* internal request primitive and the eleven public operations.            *)
(*                                                                         *)
(* JavaScript strings are sequences of tokens (Str).  A token is a         *)
(* character ("/", "?", "&", "=", ".") or an atom that stands for a run of *)
(* unreserved characters ("stops", "900", "arrivals").  Characters outside *)
(* ASCII are written by code point ("U+2013").                             *)
(*                                                                         *)
(* Records list their fields in the order TLC keeps them in, so that a     *)
(* value shared between states is never reordered in place.                *)
(***************************************************************************)
EXTENDS Naturals, Sequences, FiniteSets, TLC

VARIABLES
    pc,        \* position of the client: new, ready, get, catch, json, settled
    client,    \* the closure of createClient: the userAgent it holds, the one given
    call,      \* the operation invoked and its arguments
    raised,    \* whether the invocation itself raised (a synchronous throw)
    promise,   \* state of the promise the invocation returned
    wire,      \* the ky.get invocations of the current call: <<[href, cfg]>>
    ky,        \* what ky.get settled with: a response or an error
    outcome    \* what the call's promise settled with: a value or an error

vars == <<pc, client, call, raised, promise, wire, ky, outcome>>

(***************************************************************************)
(* Strings                                                                 *)
(***************************************************************************)
RECURSIVE Cat(_)
\* the concatenation of a sequence of strings
Cat(ss) == IF ss = <<>> THEN <<>> ELSE Head(ss) \o Cat(Tail(ss))

RECURSIVE Join(_, _)
\* Array.prototype.join: the strings of ss with sep between them
Join(ss, sep) ==
    IF ss = <<>> THEN <<>>
    ELSE IF Len(ss) = 1 THEN Head(ss)
    ELSE Head(ss) \o sep \o Join(Tail(ss), sep)

RECURSIVE IndexOf(_, _, _)
\* the first position >= i of token t in s, or 0
IndexOf(s, t, i) ==
    IF i > Len(s) THEN 0
    ELSE IF s[i] = t THEN i
    ELSE IndexOf(s, t, i + 1)

RECURSIVE Split(_, _)
\* String.prototype.split on a one-token separator
Split(s, t) ==
    LET i == IndexOf(s, t, 1) IN
    IF i = 0 THEN <<s>>
    ELSE <<SubSeq(s, 1, i - 1)>> \o Split(SubSeq(s, i + 1, Len(s)), t)

EndsWith(s, suffix) ==
    /\ Len(s) >= Len(suffix)
    /\ SubSeq(s, Len(s) - Len(suffix) + 1, Len(s)) = suffix

\* percent-encoding of one token: unreserved atoms pass, reserved characters
\* become their %XX triple
EncTok(t) ==
    CASE t = "/" -> "%2F"
      [] t = "?" -> "%3F"
      [] t = "&" -> "%26"
      [] t = "=" -> "%3D"
      [] t = " " -> "%20"
      [] t = "[" -> "%5B"
      [] t = "]" -> "%5D"
      [] OTHER -> t

DecTok(t) ==
    CASE t = "%2F" -> "/"
      [] t = "%3F" -> "?"
      [] t = "%26" -> "&"
      [] t = "%3D" -> "="
      [] t = "%20" -> " "
      [] t = "%5B" -> "["
      [] t = "%5D" -> "]"
      [] t = "+" -> " "
      [] OTHER -> t

encodeURIComponent(s) == [i \in DOMAIN s |-> EncTok(s[i])]

PercentDecode(s) == [i \in DOMAIN s |-> DecTok(s[i])]

(***************************************************************************)
(* JavaScript values                                                       *)
(***************************************************************************)
\* a value is undefined, a string, or an object whose properties hold strings
Undef == [s |-> <<>>, t |-> "undef", o |-> <<>>]
S(s) == [s |-> s, t |-> "str", o |-> <<>>]
O(o) == [s |-> <<>>, t |-> "obj", o |-> o]
P(k, v) == [k |-> k, v |-> v]

\* ToBoolean
Truthy(v) == v.t = "obj" \/ (v.t = "str" /\ v.s # <<>>)

\* ToString
JSToString(v) ==
    CASE v.t = "str" -> v.s
      [] v.t = "undef" -> <<"undefined">>
      [] OTHER -> <<"[", "object", " ", "Object", "]">>

Digits == {"0", "1", "2", "3", "4", "5", "6", "7", "8", "9"}

DigitVal(d) ==
    CASE d = "0" -> 0 [] d = "1" -> 1 [] d = "2" -> 2 [] d = "3" -> 3 [] d = "4" -> 4
      [] d = "5" -> 5 [] d = "6" -> 6 [] d = "7" -> 7 [] d = "8" -> 8 [] OTHER -> 9

\* a canonical array index: such property keys are ordered first, ascending
IsIndexKey(k) ==
    /\ k # <<>>
    /\ \A i \in DOMAIN k : k[i] \in Digits
    /\ (Len(k) > 1 => k[1] # "0")

RECURSIVE IndexVal(_)
IndexVal(k) ==
    IF k = <<>> THEN 0
    ELSE 10 * IndexVal(SubSeq(k, 1, Len(k) - 1)) + DigitVal(k[Len(k)])

HasKey(obj, k) == \E i \in DOMAIN obj : obj[i].k = k

\* property read on an object's entries: obj[k], or dflt when absent
GetOr(obj, k, dflt) ==
    IF HasKey(obj, k) THEN obj[CHOOSE i \in DOMAIN obj : obj[i].k = k].v ELSE dflt

RECURSIVE SortIndexKeys(_)
\* entries with index keys in ascending numeric order
SortIndexKeys(es) ==
    IF es = <<>> THEN <<>>
    ELSE LET m == CHOOSE i \in DOMAIN es :
                    \A j \in DOMAIN es : IndexVal(es[i].k) <= IndexVal(es[j].k)
         IN <<es[m]>> \o SortIndexKeys([i \in 1..(Len(es) - 1) |->
                                            IF i < m THEN es[i] ELSE es[i + 1]])

\* OrdinaryOwnPropertyKeys: index keys ascending, then the others as inserted
OwnPropertyOrder(es) ==
    SortIndexKeys(SelectSeq(es, LAMBDA e : IsIndexKey(e.k)))
        \o SelectSeq(es, LAMBDA e : ~IsIndexKey(e.k))

\* an existing key keeps its place and its value
DefineOwnKeepingFirst(obj, e) ==
    IF HasKey(obj, e.k) THEN obj ELSE OwnPropertyOrder(Append(obj, e))

\* CreateDataProperty: an existing key keeps its place and takes the new value
DefineOwn(obj, e) ==
    IF HasKey(obj, e.k)
    THEN [i \in DOMAIN obj |-> IF obj[i].k = e.k THEN e ELSE obj[i]]
    ELSE OwnPropertyOrder(Append(obj, e))

RECURSIVE DefineAll(_, _)
DefineAll(obj, es) ==
    IF es = <<>> THEN obj ELSE DefineAll(DefineOwn(obj, Head(es)), Tail(es))

\* Object.fromEntries, and an object literal with spreads: the entries are
\* defined on a fresh object one after the other
ObjectFromEntries(es) == DefineAll(<<>>, es)

(***************************************************************************)
(* request: the URL, the query string and the transport configuration      *)
(***************************************************************************)
Origin == <<"https://example.test">>

\* new URL(path, endpoint): the path replaces the endpoint's, its embedded
\* query string is kept
ResolveURL(path) ==
    LET q == IndexOf(path, "?", 1) IN
    [pathname |-> IF q = 0 THEN path ELSE SubSeq(path, 1, q - 1),
     search   |-> IF q = 0 THEN <<>> ELSE SubSeq(path, q + 1, Len(path)),
     href     |-> Origin \o path]

\* url.searchParams.entries(): the search split on & and on the first =,
\* empty pieces skipped, names and values percent-decoded
SearchParamsEntries(search) ==
    LET pieces == SelectSeq(Split(search, "&"), LAMBDA p : p # <<>>)
        entry(p) == LET e == IndexOf(p, "=", 1) IN
                    IF e = 0 THEN P(PercentDecode(p), S(<<>>))
                    ELSE P(PercentDecode(SubSeq(p, 1, e - 1)),
                           S(PercentDecode(SubSeq(p, e + 1, Len(p)))))
    IN [i \in DOMAIN pieces |-> entry(pieces[i])]

\* qs stringify of one property with allowDots: a string gives key=value, a
\* nested object one pair per property under the dotted key, undefined nothing
StringifyProperty(e) ==
    CASE e.v.t = "undef" -> <<>>
      [] e.v.t = "str" -> <<encodeURIComponent(e.k) \o <<"=">> \o encodeURIComponent(e.v.s)>>
      [] OTHER -> [i \in DOMAIN e.v.o |->
                     encodeURIComponent(e.k) \o <<".">> \o encodeURIComponent(e.v.o[i].k)
                         \o <<"=">> \o encodeURIComponent(e.v.o[i].v)]

\* stringifyQuery(obj, {allowDots: true}): the pairs of the properties in
\* Object.keys order, joined by &
stringifyQuery(obj) ==
    Join(Cat([i \in DOMAIN obj |-> StringifyProperty(obj[i])]), <<"&">>)

\* the entries handed to Object.fromEntries: the URL's, then the query's
MergeEntriesSwapped(urlEntries, query) == query \o urlEntries

MergeEntries(urlEntries, query) == urlEntries \o query

\* the searchParams of cfg
SearchParamsOf(path, query) ==
    stringifyQuery(ObjectFromEntries(
        MergeEntries(SearchParamsEntries(ResolveURL(path).search), query)))

DefaultUserAgent == <<"hafas-rest-api-client">>

DefaultHeaders(userAgent) ==
    <<P(<<"Accept">>, <<"application/json">>), P(<<"User-Agent">>, userAgent)>>

\* opt.headers || {}
OptHeaders(opt) ==
    LET h == GetOr(opt, <<"headers">>, Undef) IN
    IF Truthy(h) THEN h.o ELSE <<>>

\* headers replaced wholesale by the caller's
HeadersOfReplaced(userAgent, opt) ==
    IF HasKey(opt, <<"headers">>) THEN OptHeaders(opt) ELSE DefaultHeaders(userAgent)

\* the headers of cfg: the two defaults, then the caller's spread over them
HeadersOf(userAgent, opt) ==
    ObjectFromEntries(DefaultHeaders(userAgent) \o OptHeaders(opt))

\* cfg: mode, redirect, searchParams, ...opt, headers
RequestCfg(userAgent, path, query, opt) ==
    ObjectFromEntries(
        <<P(<<"mode">>, S(<<"cors">>)),
          P(<<"redirect">>, S(<<"follow">>)),
          P(<<"searchParams">>, S(SearchParamsOf(path, query)))>>
        \o opt
        \o <<P(<<"headers">>, O(HeadersOf(userAgent, opt)))>>)

(***************************************************************************)
(* Responses, errors and returned values                                   *)
(***************************************************************************)
\* a JSON value: null, a number, a string, an array, or an object whose
\* fields hold primitives
JNull == [s |-> <<>>, t |-> "null", o |-> <<>>]
JNum(n) == [s |-> n, t |-> "num", o |-> <<>>]
JStr(s) == [s |-> s, t |-> "str", o |-> <<>>]
JArr == [s |-> <<>>, t |-> "arr", o |-> <<>>]
JObj(o) == [s |-> <<>>, t |-> "obj", o |-> o]
Prim(t, s) == [s |-> s, t |-> t]

\* ToBoolean and ToString of a primitive field
PrimTruthy(v) == (v.t = "str" /\ v.s # <<>>) \/ (v.t = "num" /\ v.s # <<"0">>)

PrimToString(v) == IF v.t = "undef" THEN <<"undefined">> ELSE v.s

NoBody == [valid |-> FALSE, json |-> JNull]
ValidBody(j) == [valid |-> TRUE, json |-> j]

NoResponse == [present |-> FALSE, status |-> 0, headers |-> <<>>, body |-> NoBody]
Response(status, headers, body) ==
    [present |-> TRUE, status |-> status, headers |-> headers, body |-> body]

NoError ==
    [body |-> JNull, origin |-> "none", name |-> "none", message |-> <<>>,
     response |-> NoResponse, hasBody |-> FALSE]
Error(origin, name, message, response) ==
    [body |-> JNull, origin |-> origin, name |-> name, message |-> message,
     response |-> response, hasBody |-> FALSE]

LowerTok(t) ==
    CASE t = "Server-Timing" -> "server-timing"
      [] t = "X-Cache" -> "x-cache"
      [] t = "Content-Type" -> "content-type"
      [] t = "Application/JSON" -> "application/json"
      [] OTHER -> t

Lower(s) == [i \in DOMAIN s |-> LowerTok(s[i])]

\* Headers.get: the name is matched case-insensitively; null when absent
HeadersGet(headers, name) ==
    IF HasKey(headers, Lower(name))
    THEN Prim("str", GetOr(headers, Lower(name), <<>>))
    ELSE Prim("null", <<>>)

MediaTypes == {"application/json", "Application/JSON", "text/html"}

Trim(s) == SelectSeq(s, LAMBDA t : t # " ")

\* parse of the content-type package: the part before the first ; trimmed, which
\* must be one well-formed media type; .type is its lower case
ContentTypeParse(cType) ==
    LET semi == IndexOf(cType, ";", 1)
        type == Trim(IF semi = 0 THEN cType ELSE SubSeq(cType, 1, semi - 1))
    IN IF Len(type) = 1 /\ type[1] \in MediaTypes
       THEN [throws |-> FALSE, type |-> Lower(type)]
       ELSE [throws |-> TRUE, type |-> <<>>]

\* the separator as the source file spells it: U+00E2 U+20AC U+201C between
\* two spaces
MessageSeparator == <<" ", "U+00E2", "U+20AC", "U+201C", " ">>

\* the inner try block of the catch: reads the content type, parses the body,
\* attaches it and extends the message; thrown says that it threw on the way
EnrichError(err) ==
    LET cType == HeadersGet(err.response.headers, <<"content-type">>)
        done(e) == [err |-> e, thrown |-> FALSE]
        threw(e) == [err |-> e, thrown |-> TRUE]
    IN IF ~err.response.present THEN done(err)
       ELSE IF ~PrimTruthy(cType) THEN done(err)
       ELSE IF ContentTypeParse(cType.s).throws THEN threw(err)
       ELSE IF ContentTypeParse(cType.s).type # <<"application/json">> THEN done(err)
       ELSE IF ~err.response.body.valid THEN threw(err)
       ELSE LET json == err.response.body.json
                e1 == [err EXCEPT !.hasBody = TRUE, !.body = json]
                msg == GetOr(json.o, <<"msg">>, Prim("undef", <<>>))
            IN IF json.t = "null" THEN threw(e1)
               ELSE IF PrimTruthy(msg)
               THEN done([e1 EXCEPT !.message = @ \o MessageSeparator \o PrimToString(msg)])
               ELSE done(e1)

\* an enrichment that threw replaces the error
RethrowUnguarded(r) ==
    IF r.thrown
    THEN Error("enrich", "TypeError", <<"enrichment failed">>, NoResponse)
    ELSE r.err

\* catch (_) {} and throw err: whatever the enrichment did, err is raised
Rethrow(r) == r.err

\* a returned value: the decoded body and the properties defined on it
NoValue == [json |-> JNull, props |-> <<>>]

\* body[name] = value: an enumerable property under a string key
AssignProperty(val, name, value) ==
    [val EXCEPT !.props = Append(@,
        [value |-> value, key |-> name, symbol |-> FALSE, enumerable |-> TRUE])]

\* Object.defineProperty(body, SYMBOL, {value}): a property under a symbol key,
\* not enumerable
DefineProperty(val, name, value) ==
    [val EXCEPT !.props = Append(@,
        [value |-> value, key |-> name, symbol |-> TRUE, enumerable |-> FALSE])]

\* x || null
OrNull(v) == IF PrimTruthy(v) THEN v ELSE Prim("null", <<>>)

\* lines 78-87: decode the body, define the four markers, return it
Decorated(res) ==
    IF ~res.body.valid
    THEN [value |-> NoValue, kind |-> "error",
          error |-> Error("json", "SyntaxError", <<"invalid json">>, NoResponse)]
    ELSE IF res.body.json.t \notin {"obj", "arr"}
    THEN [value |-> NoValue, kind |-> "error",
          error |-> Error("defineProperty", "TypeError",
                          <<"Object.defineProperty called on non-object">>, NoResponse)]
    ELSE LET b0 == [json |-> res.body.json, props |-> <<>>]
             b1 == DefineProperty(b0, "RESPONSE", Prim("Response", <<>>))
             b2 == DefineProperty(b1, "HEADERS", Prim("Headers", <<>>))
             b3 == DefineProperty(b2, "SERVER_TIMING",
                                  OrNull(HeadersGet(res.headers, <<"Server-Timing">>)))
             b4 == DefineProperty(b3, "CACHE",
                                  OrNull(HeadersGet(res.headers, <<"X-Cache">>)))
         IN [value |-> b4, kind |-> "value", error |-> NoError]

\* value[SYMBOL]
ReadMarker(val, name) ==
    LET hits == SelectSeq(val.props, LAMBDA p : p.symbol /\ p.key = name)
    IN IF hits = <<>> THEN Prim("undef", <<>>) ELSE hits[Len(hits)].value

\* JSON.parse(JSON.stringify(value)): the body's own fields and every
\* enumerable string-keyed property
Serialized(val) ==
    LET extra == SelectSeq(val.props, LAMBDA p : p.enumerable /\ ~p.symbol)
    IN [val.json EXCEPT !.o = @ \o [i \in DOMAIN extra |->
                                       P(<<extra[i].key>>, extra[i].value)]]

(***************************************************************************)
(* createClient and the public operations                                  *)
(***************************************************************************)
\* lines 30-34: userAgent is destructured from the literal of defaults
UserAgentOf(opt) == DefaultUserAgent

\* new URL(endpoint) accepts an absolute URL
ValidEndpoint(endpoint) == endpoint = Origin

\* what an operation does before its first await: it throws, or it calls
\* request(path, query, topt)
Throws(message) ==
    [throws |-> TRUE, error |-> message, path |-> <<>>, query |-> <<>>, topt |-> <<>>]
Requests(path, query, topt) ==
    [throws |-> FALSE, error |-> <<>>, path |-> path, query |-> query, topt |-> topt]

request(path, query, opt) == Requests(path, query, opt)

locations(query, opt) ==
    request(<<"/", "locations">>, ObjectFromEntries(<<P(<<"query">>, query)>> \o opt), <<>>)

nearby(loc, opt) ==
    request(<<"/", "stops", "/", "nearby">>, ObjectFromEntries(loc \o opt), <<>>)

stations(query, opt) ==
    request(<<"/", "stations">>, ObjectFromEntries(opt \o <<P(<<"query">>, query)>>), <<>>)

reachableFrom(loc, opt) ==
    request(<<"/", "stops", "/", "reachable-from">>, ObjectFromEntries(loc \o opt), <<>>)

\* opt handed on as the transport options as well
stopForwardingOpt(id, opt) ==
    IF ~Truthy(id) THEN Throws(<<"invalid id">>)
    ELSE request(<<"/", "stops", "/">> \o encodeURIComponent(JSToString(id)), opt, opt)

stop(id, opt) ==
    IF ~Truthy(id) THEN Throws(<<"invalid id">>)
    ELSE request(<<"/", "stops", "/">> \o encodeURIComponent(JSToString(id)), opt, <<>>)

\* the last path segment taken from the board's type
BoardSegmentByType(type) == type

\* line 155: the last path segment of a station board, whatever its type
BoardSegment(type) == "departures"

\* stop.id
IdOf(v) ==
    IF v.t = "obj" /\ HasKey(v.o, <<"id">>) THEN S(GetOr(v.o, <<"id">>, <<>>)) ELSE Undef

stationBoard(type, stopArg, opt) ==
    IF ~Truthy(stopArg) THEN Throws(<<"invalid stop">>)
    ELSE IF ~Truthy(IdOf(stopArg)) /\ stopArg.t # "str" THEN Throws(<<"invalid stop">>)
    ELSE LET id == IF Truthy(IdOf(stopArg)) THEN IdOf(stopArg) ELSE stopArg
         IN request(<<"/", "stops", "/">> \o encodeURIComponent(JSToString(id))
                        \o <<"/", BoardSegment(type)>>, opt, <<>>)

departures(stopArg, opt) == stationBoard("departures", stopArg, opt)

arrivals(stopArg, opt) == stationBoard("arrivals", stopArg, opt)

journeys(from, to, opt) ==
    request(<<"/", "journeys">>,
            ObjectFromEntries(<<P(<<"from">>, from), P(<<"to">>, to)>> \o opt), <<>>)

refreshJourney(ref, opt) ==
    IF ~Truthy(ref) THEN Throws(<<"invalid ref">>)
    ELSE request(<<"/", "journeys", "/">> \o encodeURIComponent(JSToString(ref)), opt, <<>>)

trip(id, lineName, opt) ==
    IF ~Truthy(id) THEN Throws(<<"invalid id">>)
    ELSE request(<<"/", "trips", "/">> \o encodeURIComponent(JSToString(id)),
                 ObjectFromEntries(<<P(<<"lineName">>, lineName)>> \o opt), <<>>)

radar(bbox, opt) ==
    request(<<"/", "radar">>, ObjectFromEntries(bbox \o opt), <<>>)

\* an ordinary function: a throw before the first await leaves the call itself
SyncFunction(inv) ==
    [raised |-> inv.throws, promise |-> IF inv.throws THEN "none" ELSE "pending"]

\* an async function: the call returns a promise, which a throw rejects
AsyncFunction(inv) ==
    [raised |-> FALSE, promise |-> IF inv.throws THEN "rejected" ELSE "pending"]

(***************************************************************************)
(* Inputs                                                                  *)
(***************************************************************************)
MaxUrlEntries == 2
MaxQueryEntries == 2

RECURSIVE SeqsUpTo(_, _)
\* the sequences over elems of length at most n
SeqsUpTo(elems, n) ==
    IF n = 0 THEN {<<>>}
    ELSE LET shorter == SeqsUpTo(elems, n - 1)
         IN shorter \cup {Append(q, e) : q \in shorter, e \in elems}

Keys == {<<"a">>, <<"b">>, <<"0">>}

\* the query entries a path can embed, and the paths that embed them
UrlEntries == {P(k, S(<<"1">>)) : k \in Keys}

PathWith(entries) ==
    <<"/", "x">> \o
    (IF entries = <<>> THEN <<>>
     ELSE <<"?">> \o Join([i \in DOMAIN entries |->
                              entries[i].k \o <<"=">> \o entries[i].v.s], <<"&">>))

Paths == {PathWith(es) : es \in SeqsUpTo(UrlEntries, MaxUrlEntries)}

QueryValues ==
    {Undef, S(<<"2">>), O(<<>>), O(<<P(<<"b">>, <<"2">>)>>)}

\* the explicit query objects: distinct keys, in own-property order
Queries ==
    {q \in SeqsUpTo({P(k, v) : k \in Keys, v \in QueryValues}, MaxQueryEntries) :
        q = ObjectFromEntries(q)}

\* the transport options a caller of request can pass
HeaderSets ==
    {<<>>,
     <<P(<<"Accept">>, <<"text/html">>)>>,
     <<P(<<"User-Agent">>, <<"mine">>)>>,
     <<P(<<"X-Custom">>, <<"1">>)>>,
     <<P(<<"X-Custom">>, <<"1">>), P(<<"User-Agent">>, <<"mine">>)>>}

KyOptions ==
    {base \o hdr :
        base \in {<<>>,
                  <<P(<<"redirect">>, S(<<"manual">>))>>,
                  <<P(<<"mode">>, S(<<"same-origin">>)), P(<<"signal">>, O(<<>>))>>,
                  <<P(<<"searchParams">>, S(<<"z", "=", "9">>))>>,
                  <<P(<<"mode">>, Undef)>>},
        hdr \in {<<>>, <<P(<<"headers">>, Undef)>>}
                  \cup {<<P(<<"headers">>, O(h))>> : h \in HeaderSets}}

\* the opt of a public operation
PublicOpts ==
    {<<>>,
     <<P(<<"results">>, S(<<"1">>))>>,
     <<P(<<"query">>, S(<<"y">>)), P(<<"lineName">>, S(<<"S1">>))>>,
     <<P(<<"headers">>, O(<<P(<<"User-Agent">>, <<"mine">>)>>)),
       P(<<"redirect">>, S(<<"manual">>))>>,
     <<P(<<"mode">>, S(<<"same-origin">>)), P(<<"signal">>, O(<<>>))>>}

IdArgs ==
    {Undef, S(<<>>), S(<<"900">>), S(<<"arrivals">>), S(<<"a", "/", "b">>), O(<<>>)}

StopArgs ==
    IdArgs \cup {O(<<P(<<"id">>, <<"900">>)>>), O(<<P(<<"id">>, <<>>)>>),
                 O(<<P(<<"name">>, <<"X">>)>>)}

TextArgs == {Undef, S(<<"U7">>)}

Locs ==
    {<<>>, <<P(<<"latitude">>, S(<<"52">>)), P(<<"results">>, S(<<"9">>))>>}

ClientOpts == {<<>>, <<P(<<"userAgent">>, S(<<"my awesome project">>))>>}

Endpoints == {Origin, <<"not a url">>}

\* what ky.get can resolve with: a 2xx response
HeaderLists ==
    {<<>>,
     <<P(<<"x-cache">>, <<"HIT">>)>>,
     <<P(<<"server-timing">>, <<"db;dur=5">>), P(<<"x-cache">>, <<>>)>>}

Bodies ==
    {NoBody,
     ValidBody(JObj(<<P(<<"id">>, Prim("str", <<"900">>)), P(<<"name">>, Prim("str", <<"X">>))>>)),
     ValidBody(JObj(<<>>)),
     ValidBody(JArr),
     ValidBody(JNull),
     ValidBody(JNum(<<"5">>))}

AllResponses == {Response(200, h, b) : h \in HeaderLists, b \in Bodies}

BasicResponses ==
    {Response(200, <<P(<<"x-cache">>, <<"HIT">>)>>, ValidBody(JObj(<<>>)))}

\* what ky.get can reject with: a network failure, or an HTTPError that holds
\* the non-2xx response
ContentTypes ==
    {<<"application/json">>,
     <<"application/json", ";", " ", "charset=utf-8">>,
     <<"Application/JSON">>,
     <<"text/html">>,
     <<"application/json", " ", "x">>,
     <<>>}

ErrorBodies ==
    {NoBody,
     ValidBody(JObj(<<P(<<"msg">>, Prim("str", <<"not found">>))>>)),
     ValidBody(JObj(<<P(<<"msg">>, Prim("str", <<>>))>>)),
     ValidBody(JObj(<<P(<<"error">>, Prim("str", <<"x">>))>>)),
     ValidBody(JNull),
     ValidBody(JStr(<<"oops">>))}

HTTPErrorMessage == <<"Request failed with status code 500">>

NetworkError == Error("ky", "TypeError", <<"fetch failed">>, NoResponse)

HTTPError(response) == Error("ky", "HTTPError", HTTPErrorMessage, response)

AllErrors ==
    {NetworkError}
        \cup {HTTPError(Response(500, <<>>, b)) : b \in ErrorBodies}
        \cup {HTTPError(Response(500, <<P(<<"content-type">>, c)>>, b)) :
                 c \in ContentTypes, b \in ErrorBodies}

BasicErrors ==
    {NetworkError,
     HTTPError(Response(500, <<P(<<"content-type">>, <<"application/json">>)>>,
                        ValidBody(JObj(<<P(<<"msg">>, Prim("str", <<"not found">>))>>))))}

(***************************************************************************)
(* The state machine                                                       *)
(***************************************************************************)
NoCall == [opt |-> <<>>, loc |-> <<>>, op |-> "none", x |-> Undef, y |-> Undef]
NoKy == [err |-> NoError, res |-> NoResponse, kind |-> "none"]
NoOutcome == [value |-> NoValue, kind |-> "none", error |-> NoError]

Init ==
    /\ pc = "new"
    /\ client = [userAgent |-> <<>>, opt |-> <<>>, created |-> FALSE]
    /\ call = NoCall
    /\ raised = FALSE
    /\ promise = "none"
    /\ wire = <<>>
    /\ ky = NoKy
    /\ outcome = NoOutcome

\* createClient(endpoint, opt)
CreateClient(opts) ==
    \E endpoint \in Endpoints, opt \in opts :
        /\ pc = "new"
        /\ IF ValidEndpoint(endpoint)
           THEN /\ client' = [userAgent |-> UserAgentOf(opt), opt |-> opt, created |-> TRUE]
                /\ pc' = "ready"
                /\ raised' = FALSE
           ELSE /\ raised' = TRUE
                /\ UNCHANGED <<client, pc>>
        /\ UNCHANGED <<call, promise, wire, ky, outcome>>

\* the invocation of an operation up to its first await: the arguments are
\* checked and ky.get is called with the URL and cfg
Invoke(op, x, y, loc, opt, inv) ==
    /\ pc = "ready"
    /\ call' = [opt |-> opt, loc |-> loc, op |-> op, x |-> x, y |-> y]
    /\ raised' = AsyncFunction(inv).raised
    /\ promise' = AsyncFunction(inv).promise
    /\ ky' = NoKy
    /\ IF inv.throws
       THEN /\ wire' = <<>>
            /\ outcome' = [value |-> NoValue, kind |-> "error",
                           error |-> Error("argument", "TypeError", inv.error, NoResponse)]
            /\ pc' = "settled"
       ELSE /\ wire' = <<[href |-> ResolveURL(inv.path).href,
                          cfg |-> RequestCfg(client.userAgent, inv.path, inv.query, inv.topt)]>>
            /\ outcome' = NoOutcome
            /\ pc' = "get"
    /\ UNCHANGED client

Locations ==
    \E q \in TextArgs, opt \in PublicOpts :
        Invoke("locations", q, Undef, <<>>, opt, locations(q, opt))

Nearby ==
    \E loc \in Locs, opt \in PublicOpts :
        Invoke("nearby", Undef, Undef, loc, opt, nearby(loc, opt))

Stations ==
    \E q \in TextArgs, opt \in PublicOpts :
        Invoke("stations", q, Undef, <<>>, opt, stations(q, opt))

ReachableFrom ==
    \E loc \in Locs, opt \in PublicOpts :
        Invoke("reachableFrom", Undef, Undef, loc, opt, reachableFrom(loc, opt))

Stop ==
    \E id \in IdArgs, opt \in PublicOpts :
        Invoke("stop", id, Undef, <<>>, opt, stop(id, opt))

Departures ==
    \E s \in StopArgs, opt \in PublicOpts :
        Invoke("departures", s, Undef, <<>>, opt, departures(s, opt))

Arrivals ==
    \E s \in StopArgs, opt \in PublicOpts :
        Invoke("arrivals", s, Undef, <<>>, opt, arrivals(s, opt))

Journeys ==
    \E from \in {S(<<"900">>)}, to \in {Undef, S(<<"901">>)}, opt \in PublicOpts :
        Invoke("journeys", from, to, <<>>, opt, journeys(from, to, opt))

RefreshJourney ==
    \E ref \in IdArgs, opt \in PublicOpts :
        Invoke("refreshJourney", ref, Undef, <<>>, opt, refreshJourney(ref, opt))

Trip ==
    \E id \in IdArgs, lineName \in TextArgs, opt \in PublicOpts :
        Invoke("trip", id, lineName, <<>>, opt, trip(id, lineName, opt))

Radar ==
    \E bbox \in Locs, opt \in PublicOpts :
        Invoke("radar", Undef, Undef, bbox, opt, radar(bbox, opt))

\* request(path, query, opt) called directly
Request(paths, queries, opts) ==
    \E path \in paths, query \in queries, opt \in opts :
        Invoke("request", S(path), Undef, query, opt, request(path, query, opt))

\* ky.get resolves with a 2xx response
KyResolves(responses) ==
    \E res \in responses :
        /\ pc = "get"
        /\ ky' = [err |-> NoError, res |-> res, kind |-> "response"]
        /\ pc' = "json"
        /\ UNCHANGED <<client, call, raised, promise, wire, outcome>>

\* ky.get rejects
KyRejects(errors) ==
    \E err \in errors :
        /\ pc = "get"
        /\ ky' = [err |-> err, res |-> NoResponse, kind |-> "error"]
        /\ pc' = "catch"
        /\ UNCHANGED <<client, call, raised, promise, wire, outcome>>

\* lines 64-76: the catch block
Catch ==
    /\ pc = "catch"
    /\ outcome' = [value |-> NoValue, kind |-> "error",
                   error |-> Rethrow(EnrichError(ky.err))]
    /\ promise' = "rejected"
    /\ pc' = "settled"
    /\ UNCHANGED <<client, call, raised, wire, ky>>

\* lines 78-87: the success path
Decorate ==
    /\ pc = "json"
    /\ outcome' = Decorated(ky.res)
    /\ promise' = IF Decorated(ky.res).kind = "value" THEN "fulfilled" ELSE "rejected"
    /\ pc' = "settled"
    /\ UNCHANGED <<client, call, raised, wire, ky>>

\* the caller has its result; the client is ready for the next call
Return ==
    /\ pc = "settled"
    /\ pc' = "ready"
    /\ call' = NoCall
    /\ raised' = FALSE
    /\ promise' = "none"
    /\ wire' = <<>>
    /\ ky' = NoKy
    /\ outcome' = NoOutcome
    /\ UNCHANGED client

\* the client through its public operations
Next ==
    \/ CreateClient(ClientOpts)
    \/ Locations \/ Nearby \/ Stations \/ ReachableFrom \/ Stop
    \/ Departures \/ Arrivals \/ Journeys \/ RefreshJourney \/ Trip \/ Radar
    \/ KyResolves(BasicResponses) \/ KyRejects(BasicErrors)
    \/ Catch \/ Decorate \/ Return

Spec == Init /\ [][Next]_vars

\* request called with paths that embed a query string and explicit queries
NextQuery ==
    \/ CreateClient({<<>>})
    \/ Request(Paths, Queries, {<<>>})
    \/ KyResolves(BasicResponses) \/ KyRejects({NetworkError})
    \/ Catch \/ Decorate \/ Return

SpecQuery == Init /\ [][NextQuery]_vars

\* request called with transport options
NextOptions ==
    \/ CreateClient({<<>>})
    \/ Request({<<"/", "x">>}, {<<>>, <<P(<<"a">>, S(<<"2">>))>>}, KyOptions)
    \/ KyResolves(BasicResponses) \/ KyRejects(BasicErrors)
    \/ Catch \/ Decorate \/ Return

SpecOptions == Init /\ [][NextOptions]_vars

\* request under every response and failure of the transport
NextResponse ==
    \/ CreateClient({<<>>})
    \/ Request({<<"/", "x">>}, {<<>>, <<P(<<"a">>, S(<<"2">>))>>}, {<<>>})
    \/ KyResolves(AllResponses) \/ KyRejects(AllErrors)
    \/ Catch \/ Decorate \/ Return

SpecResponse == Init /\ [][NextResponse]_vars

(***************************************************************************)
(* Properties                                                              *)
(***************************************************************************)
Issued == Len(wire) = 1

\* the request's pathname, its cfg and the pairs of its query string (ky sends
\* cfg.searchParams in place of the search of the URL it is given)
WirePath == ResolveURL(SubSeq(wire[1].href, Len(Origin) + 1, Len(wire[1].href))).pathname
WireCfg == wire[1].cfg
WireHeaders == GetOr(WireCfg, <<"headers">>, Undef).o
WireSearch == GetOr(WireCfg, <<"searchParams">>, Undef).s
WirePairs == IF WireSearch = <<>> THEN <<>> ELSE Split(WireSearch, "&")
KeysOf(obj) == {obj[i].k : i \in DOMAIN obj}

InvalidArgumentCall ==
    \/ call.op \in {"stop", "refreshJourney", "trip"} /\ call.x = S(<<>>)
    \/ call.op \in {"departures", "arrivals"} /\ call.x = Undef

RejectedForArgument ==
    /\ outcome.kind = "error"
    /\ outcome.error.origin = "argument"
    /\ outcome.error.name = "TypeError"
    /\ wire = <<>>

\* C1 as stated: stop(''), refreshJourney(''), trip(''), departures(undefined)
\* and arrivals(undefined) raise from the call itself, with an invalid-argument
\* error and without a network request.
C1_RaisesSynchronously ==
    InvalidArgumentCall => (raised /\ RejectedForArgument)

\* C1 amended: each of these calls returns a promise that is already rejected
\* with the invalid-argument TypeError (the call itself does not raise), and no
\* network request is issued.
C1_RejectsWithoutRequest ==
    InvalidArgumentCall =>
        (~raised /\ promise = "rejected" /\ pc = "settled" /\ RejectedForArgument)

C1_Witness ==
    /\ InvalidArgumentCall
    /\ call.op = "arrivals"
    /\ promise = "rejected"

\* the userAgent the caller gave, when one was given
UserAgentGiven(opt) ==
    LET u == GetOr(opt, <<"userAgent">>, Undef) IN
    IF u.t = "undef" THEN DefaultUserAgent ELSE JSToString(u)

\* C5: every request of a client created with {userAgent: U} carries
\* User-Agent: U, and the default only when no userAgent was given (the public
\* operations pass no headers of their own).
C5_UserAgentIsConfigured ==
    Issued => GetOr(WireHeaders, <<"User-Agent">>, <<>>) = UserAgentGiven(client.opt)

\* the stop arguments the claim calls valid, as the claim words them
ClaimedValidStop(v) ==
    (v.t = "str" /\ v.s # <<>>) \/ (v.t = "obj" /\ HasKey(v.o, <<"id">>))

\* the stop arguments a station board accepts: a non-empty string or an object
\* with a non-empty id
AcceptedStop(v) ==
    (v.t = "str" /\ v.s # <<>>) \/ (v.t = "obj" /\ GetOr(v.o, <<"id">>, <<>>) # <<>>)

StopIdOf(v) == IF v.t = "str" THEN v.s ELSE GetOr(v.o, <<"id">>, <<>>)

DeparturesPath(v) ==
    <<"/", "stops", "/">> \o encodeURIComponent(StopIdOf(v)) \o <<"/", "departures">>

\* the one request both station boards issue for (stop, opt)
BoardRequest(v, opt) ==
    [href |-> Origin \o DeparturesPath(v),
     cfg |-> RequestCfg(client.userAgent, DeparturesPath(v), opt, <<>>)]

\* a path /stops/{id}/arrivals
IsArrivalsBoardPath(p) ==
    /\ Len(p) > 5
    /\ SubSeq(p, 1, 3) = <<"/", "stops", "/">>
    /\ EndsWith(p, <<"/", "arrivals">>)

PublicOps ==
    {"locations", "nearby", "stations", "reachableFrom", "stop", "departures",
     "arrivals", "journeys", "refreshJourney", "trip", "radar"}

\* the pairs opt's property i contributes to a query string
OptPairs(i) == StringifyProperty(call.opt[i])

CallPath == call.x.s
CallQuery == call.loc
CallUrlEntries == SearchParamsEntries(ResolveURL(CallPath).search)
CallEntries == CallUrlEntries \o CallQuery

FirstPos(es, k) == CHOOSE i \in DOMAIN es : es[i].k = k /\ \A j \in 1..(i - 1) : es[j].k # k
LastPos(es, k) == CHOOSE i \in DOMAIN es : es[i].k = k /\ \A j \in (i + 1)..Len(es) : es[j].k # k

\* the key a pair of the query string belongs to: what precedes its first . or =
RootKey(pair) ==
    LET dot == IndexOf(pair, ".", 1)
        eq == IndexOf(pair, "=", 1)
        end == IF dot # 0 /\ dot < eq THEN dot ELSE eq
    IN PercentDecode(SubSeq(pair, 1, end - 1))

PairsOfKey(k) == SelectSeq(WirePairs, LAMBDA p : RootKey(p) = k)

\* own-property order of two distinct keys of the merged entries
KeyBefore(k1, k2) ==
    IF IsIndexKey(k1)
    THEN ~IsIndexKey(k2) \/ IndexVal(k1) < IndexVal(k2)
    ELSE ~IsIndexKey(k2) /\ FirstPos(CallEntries, k1) < FirstPos(CallEntries, k2)

\* C7 as stated: the entries request encodes into the query string are the
\* URL's entries in their order followed by the explicit query's entries in
\* theirs, same-key entries not deduplicated.
C7_EntriesNotDeduplicated ==
    (Issued /\ call.op = "request") =>
        WireSearch = Join(Cat([i \in DOMAIN CallEntries |->
                                  StringifyProperty(CallEntries[i])]), <<"&">>)

\* C7 amended: the entries request encodes are that concatenation collapsed by
\* key: each key is encoded once, with the value of its last entry (a nested
\* object flattened to dotted keys, an undefined value or empty object to
\* nothing), integer-like keys first in ascending order and the other keys in
\* the order of their first entry.
C7_EntriesCollapsedByKey ==
    (Issued /\ call.op = "request") =>
        /\ \A k \in KeysOf(CallEntries) :
              PairsOfKey(k) = StringifyProperty(CallEntries[LastPos(CallEntries, k)])
        /\ \A n \in DOMAIN WirePairs : RootKey(WirePairs[n]) \in KeysOf(CallEntries)
        /\ \A m, n \in DOMAIN WirePairs :
              (m < n /\ RootKey(WirePairs[m]) # RootKey(WirePairs[n]))
                  => KeyBefore(RootKey(WirePairs[m]), RootKey(WirePairs[n]))

C7_Witness ==
    /\ Issued
    /\ call.op = "request"
    /\ CallUrlEntries = <<P(<<"a">>, S(<<"1">>)), P(<<"b">>, S(<<"1">>))>>
    /\ CallQuery = <<P(<<"0">>, S(<<"2">>)), P(<<"a">>, O(<<P(<<"b">>, <<"2">>)>>))>>
    /\ WireSearch = <<"0", "=", "2", "&", "a", ".", "b", "=", "2", "&", "b", "=", "1">>

\* C8: when a key occurs both in the path's embedded query string and in the
\* explicit query, what the query string carries for it is the explicit
\* query's value.
C8_ExplicitQueryWins ==
    (Issued /\ call.op = "request") =>
        \A k \in KeysOf(CallUrlEntries) \cap KeysOf(CallQuery) :
            PairsOfKey(k) = StringifyProperty(P(k, GetOr(CallQuery, k, Undef)))

C8_Witness ==
    /\ Issued
    /\ call.op = "request"
    /\ HasKey(CallUrlEntries, <<"a">>)
    /\ GetOr(CallQuery, <<"a">>, Undef) = S(<<"2">>)
    /\ PairsOfKey(<<"a">>) = <<(<<"a", "=", "2">>)>>

\* the headers the caller of request supplied
CallerHeaders ==
    LET h == GetOr(call.opt, <<"headers">>, Undef) IN
    IF h.t = "obj" THEN h.o ELSE <<>>

\* the defaults of cfg
CfgDefaults ==
    <<P(<<"mode">>, S(<<"cors">>)),
      P(<<"redirect">>, S(<<"follow">>)),
      P(<<"searchParams">>, S(SearchParamsOf(CallPath, CallQuery)))>>

\* C9: the configuration of the GET is the defaults overridden by options:
\* a caller's header replaces the default header of the same key only, the
\* other default header stays; every other option the caller supplied replaces
\* its default wholesale, and the options not supplied keep their defaults.
C9_OptionsOverrideDefaults ==
    (Issued /\ call.op = "request") =>
        /\ KeysOf(WireHeaders) = KeysOf(DefaultHeaders(client.userAgent)) \cup KeysOf(CallerHeaders)
        /\ \A k \in KeysOf(WireHeaders) :
              GetOr(WireHeaders, k, <<>>) =
                  GetOr(CallerHeaders, k, GetOr(DefaultHeaders(client.userAgent), k, <<>>))
        /\ KeysOf(WireCfg) = KeysOf(CfgDefaults) \cup KeysOf(call.opt) \cup {<<"headers">>}
        /\ \A k \in KeysOf(WireCfg) \ {<<"headers">>} :
              GetOr(WireCfg, k, Undef) = GetOr(call.opt, k, GetOr(CfgDefaults, k, Undef))

C9_Witness ==
    /\ Issued
    /\ call.op = "request"
    /\ CallerHeaders = <<P(<<"User-Agent">>, <<"mine">>)>>
    /\ HasKey(call.opt, <<"redirect">>)
    /\ GetOr(WireHeaders, <<"Accept">>, <<>>) = <<"application/json">>

Succeeded == pc = "settled" /\ ky.kind = "response" /\ ky.res.body.valid
Failed == pc = "settled" /\ ky.kind = "error"

HeaderPresent(res, name) == HasKey(res.headers, name)
HeaderValue(res, name) == GetOr(res.headers, name, <<>>)

\* what a marker reads of a header: its value, or null
HeaderOrNull(name, present) ==
    IF present THEN Prim("str", HeaderValue(ky.res, name)) ELSE Prim("null", <<>>)

\* the returned value is the body and nothing else to JSON, and the four
\* markers read the response, its headers, timing and cache
ReturnsDecoratedBody(timing, cache) ==
    /\ outcome.kind = "value"
    /\ promise = "fulfilled"
    /\ outcome.value.json = ky.res.body.json
    /\ Serialized(outcome.value) = ky.res.body.json
    /\ \A i \in DOMAIN outcome.value.props : ~outcome.value.props[i].enumerable
    /\ ReadMarker(outcome.value, "RESPONSE") = Prim("Response", <<>>)
    /\ ReadMarker(outcome.value, "HEADERS") = Prim("Headers", <<>>)
    /\ ReadMarker(outcome.value, "SERVER_TIMING") = timing
    /\ ReadMarker(outcome.value, "CACHE") = cache

NonEmptyHeader(name) == HeaderPresent(ky.res, name) /\ HeaderValue(ky.res, name) # <<>>

\* C2 as stated: for every 2xx response whose body is valid JSON the value
\* returned is JSON-equal to the body, serializes to the body's fields alone,
\* and its four markers read the response, the headers, and the Server-Timing
\* and X-Cache header values, null when the header is absent.
C2_EveryJsonBodyIsReturned ==
    Succeeded =>
        ReturnsDecoratedBody(
            HeaderOrNull(<<"server-timing">>, HeaderPresent(ky.res, <<"server-timing">>)),
            HeaderOrNull(<<"x-cache">>, HeaderPresent(ky.res, <<"x-cache">>)))

\* C2 amended: the same for every 2xx response whose body is a JSON object or
\* array, the two header markers reading the header's value when the header is
\* present and not empty, and null otherwise.
C2_ObjectBodyIsReturned ==
    (Succeeded /\ ky.res.body.json.t \in {"obj", "arr"}) =>
        ReturnsDecoratedBody(
            HeaderOrNull(<<"server-timing">>, NonEmptyHeader(<<"server-timing">>)),
            HeaderOrNull(<<"x-cache">>, NonEmptyHeader(<<"x-cache">>)))

C2_Witness ==
    /\ Succeeded
    /\ HeaderValue(ky.res, <<"x-cache">>) = <<"HIT">>
    /\ Len(ky.res.body.json.o) = 2
    /\ ReadMarker(outcome.value, "CACHE") = Prim("str", <<"HIT">>)

\* the separator the specification names: an en dash between two spaces
EnDashSeparator == <<" ", "U+2013", " ">>

FailureContentType == HeaderValue(ky.err.response, <<"content-type">>)
FailureBody == ky.err.response.body

\* the failure response declares the media type application/json
JsonContentType ==
    /\ FailureContentType # <<>>
    /\ LowerTok(FailureContentType[1]) = "application/json"
    /\ (Len(FailureContentType) > 1 => FailureContentType[2] = ";")

FailureMsg == GetOr(FailureBody.json.o, <<"msg">>, Prim("undef", <<>>))

\* C3: a failure whose response has content-type application/json and a JSON
\* body with a msg field (a non-empty string) is raised with body equal to the
\* parsed payload and a message ending in the separator space, en dash, space
\* followed by msg; a failure whose response has another content type is raised
\* without a body field and with its message unmodified.
C3_ErrorCarriesBodyAndMessage ==
    (Failed /\ ky.err.response.present) =>
        /\ (JsonContentType /\ FailureBody.valid /\ FailureMsg.t = "str" /\ FailureMsg.s # <<>>)
               => /\ outcome.error.hasBody
                  /\ outcome.error.body = FailureBody.json
                  /\ EndsWith(outcome.error.message, EnDashSeparator \o FailureMsg.s)
        /\ ~JsonContentType
               => /\ ~outcome.error.hasBody
                  /\ outcome.error.message = ky.err.message

IsPrefix(p, s) == Len(p) <= Len(s) /\ SubSeq(s, 1, Len(p)) = p

\* C4: once the GET has failed, request calls the transport no further time
\* and never yields a value, and it raises that very failure to the caller,
\* also when reading the content type or the error body fails (no response
\* handle, an unparsable body, a null body).
C4_OriginalFailureIsRaised ==
    (ky.kind = "error") =>
        /\ Len(wire) = 1
        /\ outcome.kind # "value"
        /\ promise # "fulfilled"
        /\ pc = "settled" =>
              /\ promise = "rejected"
              /\ outcome.kind = "error"
              /\ outcome.error.origin = "ky"
              /\ outcome.error.name = ky.err.name
              /\ outcome.error.response = ky.err.response
              /\ IsPrefix(ky.err.message, outcome.error.message)

C4_Witness ==
    /\ Failed
    /\ FailureContentType = <<"application/json">>
    /\ FailureBody = ValidBody(JNull)
    /\ EnrichError(ky.err).thrown
    /\ outcome.error.origin = "ky"

====
